---------------------------- MODULE Spec2Model ----------------------------
(***************************************************************************)
(* Model of the design-tokens CLI: a zip archive of token documents is     *)
(* extracted to a scratch directory, its files are classified by suffix,  *)
(* and every output-producing file is handed to the token engine together *)
(* with the whole source list and a per-file path filter.                 *)
(*                                                                         *)
(* Strings are TLA+ strings handled character by character (Len, SubSeq,   *)
(* \o), so suffix tests, suffix stripping and joins are computed the way   *)
(* the code computes them.                                                 *)
(***************************************************************************)
EXTENDS Integers, Sequences, FiniteSets, TLC

\* ------------------------------------------------------------------ bounds

\* Largest number of entries in the listing of the archive's root directory.
MaxEntries == 2

\* ----------------------------------------------------------------- strings

NULL == "<null>"

EndsWith(s, suffix) ==
    /\ Len(s) >= Len(suffix)
    /\ SubSeq(s, Len(s) - Len(suffix) + 1, Len(s)) = suffix

StartsWith(s, prefix) ==
    /\ Len(s) >= Len(prefix)
    /\ SubSeq(s, 1, Len(prefix)) = prefix

\* s without its last n characters
DropLast(s, n) == SubSeq(s, 1, Len(s) - n)

\* path.join(dir, name) for a dir without trailing slash and a plain name
pathJoin(dir, name) == dir \o "/" \o name

\* path.basename: what follows the last "/"
RECURSIVE lastSlash(_, _)
lastSlash(p, k) ==
    IF k = 0 THEN 0
    ELSE IF SubSeq(p, k, k) = "/" THEN k
    ELSE lastSlash(p, k - 1)

basename(p) == SubSeq(p, lastSlash(p, Len(p)) + 1, Len(p))

\* Array.prototype.join
RECURSIVE join(_, _)
join(segments, sep) ==
    IF Len(segments) = 0 THEN ""
    ELSE IF Len(segments) = 1 THEN segments[1]
    ELSE segments[1] \o sep \o join(Tail(segments), sep)

\* -------------------------------------------------------------- JSON values

\* A parsed JSON value.  An object is a finite function from keys to values;
\* an array is an object whose keys are its indices, which is how typeof,
\* the `in` operator, Object.values and Object.entries see it.
Obj(f)  == [t |-> "obj", f |-> f]
Arr(f)  == [t |-> "arr", f |-> f]
Str(s)  == [t |-> "str", s |-> s]
JNull   == [t |-> "null"]
NoKeys  == << >>

\* value && typeof value === "object"
IsObject(v) == v.t \in {"obj", "arr"}

\* The own enumerable properties Object.values / Object.entries walk.  A string
\* or number has none that is an object, so it walks like an empty object.
Fields(v) == IF IsObject(v) THEN v.f ELSE NoKeys

\* key in obj
HasKey(v, key) == key \in DOMAIN v.f

\* ------------------------------------------------- token inspector (pure)

\* hasLegacyTokenFormat: some property value of `tokens` is an object with a
\* `value` key and no `$value` key, or has such an object below it.  The walk
\* looks at the values of its argument, never at the argument itself.
RECURSIVE hasLegacyTokenFormat(_)
hasLegacyTokenFormat(tokens) ==
    \E k \in DOMAIN Fields(tokens) :
        LET value == Fields(tokens)[k]
        IN  /\ IsObject(value)
            /\ \/ HasKey(value, "value") /\ ~HasKey(value, "$value")
               \/ hasLegacyTokenFormat(value)

\* validateDTCGFormat throws exactly when hasLegacyTokenFormat answers true.
validateDTCGFormatThrows(tokens) == hasLegacyTokenFormat(tokens)

\* countTokens: the loop over Object.values, one key at a time.
RECURSIVE countTokens(_), countOver(_, _)
countOver(tokens, keys) ==
    IF keys = {} THEN 0
    ELSE LET k     == CHOOSE x \in keys : TRUE
             value == Fields(tokens)[k]
             here  == IF ~IsObject(value) THEN 0
                      ELSE IF HasKey(value, "$value") THEN 1
                      ELSE countTokens(value)
         IN  here + countOver(tokens, keys \ {k})
countTokens(tokens) == countOver(tokens, DOMAIN Fields(tokens))

\* extractTokenPaths: the set of dot-joined paths of the nodes carrying $value.
RECURSIVE extractTokenPaths(_, _)
extractTokenPaths(tokens, currentPath) ==
    UNION { LET value   == Fields(tokens)[key]
                newPath == Append(currentPath, key)
            IN  IF ~IsObject(value) THEN {}
                ELSE IF HasKey(value, "$value") THEN {join(newPath, ".")}
                ELSE extractTokenPaths(value, newPath)
          : key \in DOMAIN Fields(tokens) }

\* --------------------------------------------------------------- documents

\* The texts a file of the archive may hold, by name, and what JSON.parse
\* makes of each ("bad" is not JSON: JSON.parse throws).
Token(v) == Obj("$value" :> Str(v))

DocIds == {"white", "black", "refer", "legacy", "rootlegacy", "dotted", "sage", "bad"}

ParseThrows(doc) == doc = "bad"

JSONparse(doc) ==
    CASE doc = "white"      -> Obj("color" :> Obj("primary" :> Token("#fff")))
      [] doc = "black"      -> Obj("color" :> Obj("primary" :> Token("#000")))
      [] doc = "refer"      -> Obj("btn" :> Obj("bg" :> Token("{color.primary}")))
      [] doc = "legacy"     -> Obj("color" :> Obj("primary" :>
                                     Obj("value" :> Str("#fff") @@ "type" :> Str("color"))))
      [] doc = "rootlegacy" -> Obj("value" :> Str("#fff") @@ "type" :> Str("color"))
      [] doc = "dotted"     -> Obj("color.primary" :> Token("#0f0"))
      [] doc = "sage"       -> Obj("Deep Sage" :> Token("#0a0") @@ "deep-sage" :> Token("#0b0"))
      [] OTHER              -> JNull

\* ------------------------------------------------------------- file system

\* The extracted tree: a directory listing is a sequence of entries in readdir
\* order; an entry is a regular file (holding a text), a directory (holding
\* its own listing) or something else (a link, a socket).
File(name, doc)      == [name |-> name, kind |-> "file",  doc |-> doc, children |-> << >>]
Dir(name, children)  == [name |-> name, kind |-> "dir",   doc |-> "",  children |-> children]
Other(name)          == [name |-> name, kind |-> "other", doc |-> "",  children |-> << >>]

\* Directories an archive may hold: a basename that also occurs in the root,
\* a directory inside a directory, a directory named like a token file.
SubDirs ==
    { Dir("sub", << File("core.inp.json", "refer"),
                    Dir("deep", << File("ref.inp.json", "white") >>) >>),
      Dir("pkg.inp.json", << Other("link.theme.inp.json"),
                             File("light.theme.inp.json", "black"),
                             File("prim.ref.inp.json", "white") >>) }

\* The entries the root of an archive may hold.  The standard file takes every
\* text; the others take the texts that change how the run goes.
RootEntries ==
    {File("core.inp.json", d) : d \in DocIds}
    \cup {File("core.theme.inp.json", d) : d \in {"black", "bad"}}
    \cup {File("dark.theme.inp.json", d) : d \in {"black", "legacy"}}
    \cup {File("prim.ref.inp.json", d) : d \in {"white", "bad"}}
    \cup {File("notes.json", "white"), Other("x.inp.json")}
    \cup SubDirs

\* Listings of the root: up to MaxEntries entries with distinct names.
Listings ==
    {l \in UNION {[1..n -> RootEntries] : n \in 1..MaxEntries} :
        \A a, b \in DOMAIN l : a # b => l[a].name # l[b].name}

\* A walk that lists a directory without descending into its directories.
findFilesFlat(dir, entries) ==
    LET files == SelectSeq(entries, LAMBDA e : e.kind = "file")
    IN  [k \in DOMAIN files |-> pathJoin(dir, files[k].name)]

\* findFilesRecursive: directories are descended into, regular files are
\* pushed in listing order, anything else is skipped.
RECURSIVE findFilesRecursive(_, _)
findFilesRecursive(dir, entries) ==
    IF entries = << >> THEN << >>
    ELSE LET entry    == Head(entries)
             fullPath == pathJoin(dir, entry.name)
             here     == IF entry.kind = "dir"
                           THEN findFilesRecursive(fullPath, entry.children)
                         ELSE IF entry.kind = "file" THEN << fullPath >>
                         ELSE << >>
         IN  here \o findFilesRecursive(dir, Tail(entries))

\* The text of every regular file of a tree, by full path (what readFileSync
\* and the engine's loader see).
RECURSIVE fileTexts(_, _)
fileTexts(dir, entries) ==
    IF entries = << >> THEN << >>
    ELSE LET entry    == Head(entries)
             fullPath == pathJoin(dir, entry.name)
             here     == IF entry.kind = "dir" THEN fileTexts(fullPath, entry.children)
                         ELSE IF entry.kind = "file" THEN (fullPath :> entry.doc)
                         ELSE << >>
         IN  here @@ fileTexts(dir, Tail(entries))

\* ---------------------------------------------------------------- discover

OUTPUT_PATTERN(fileName)    == EndsWith(fileName, ".inp.json")
REFERENCE_PATTERN(fileName) == EndsWith(fileName, ".ref.inp.json")
THEME_PATTERN(fileName)     == EndsWith(fileName, ".theme.inp.json")

\* A chain that tests the general pattern first.
classifyOutputFirst(file) ==
    LET fileName == basename(file)
    IN  IF OUTPUT_PATTERN(fileName) THEN "output"
        ELSE IF REFERENCE_PATTERN(fileName) THEN "reference"
        ELSE IF THEME_PATTERN(fileName) THEN "theme"
        ELSE "none"

\* The if / else-if chain of discoverTokenFiles: the first matching pattern
\* decides the bucket.
classify(file) ==
    LET fileName == basename(file)
    IN  IF REFERENCE_PATTERN(fileName) THEN "reference"
        ELSE IF THEME_PATTERN(fileName) THEN "theme"
        ELSE IF OUTPUT_PATTERN(fileName) THEN "output"
        ELSE "none"

\* The files of `files` that fall in `bucket`, in their order.
RECURSIVE bucketOf(_, _)
bucketOf(files, bucket) ==
    IF files = << >> THEN << >>
    ELSE (IF classify(Head(files)) = bucket THEN << Head(files) >> ELSE << >>)
         \o bucketOf(Tail(files), bucket)

\* A source list that puts the output files first.
allFilesOutputFirst(referenceFiles, themeFiles, outputFiles) ==
    outputFiles \o themeFiles \o referenceFiles

allFilesOf(referenceFiles, themeFiles, outputFiles) ==
    referenceFiles \o themeFiles \o outputFiles

\* A discovery that also throws when there is nothing to generate from.
discoverTokenFilesStrict(extractedDir, entries) ==
    LET allFoundFiles  == findFilesRecursive(extractedDir, entries)
        referenceFiles == bucketOf(allFoundFiles, "reference")
        themeFiles     == bucketOf(allFoundFiles, "theme")
        outputFiles    == bucketOf(allFoundFiles, "output")
    IN  [ threw          |-> Len(themeFiles) + Len(outputFiles) = 0,
          outputFiles    |-> outputFiles,
          themeFiles     |-> themeFiles,
          referenceFiles |-> referenceFiles,
          allFiles       |-> allFilesOf(referenceFiles, themeFiles, outputFiles) ]

\* discoverTokenFiles on an existing directory: the buckets, or a throw when
\* all three are empty.
discoverTokenFiles(extractedDir, entries) ==
    LET allFoundFiles  == findFilesRecursive(extractedDir, entries)
        referenceFiles == bucketOf(allFoundFiles, "reference")
        themeFiles     == bucketOf(allFoundFiles, "theme")
        outputFiles    == bucketOf(allFoundFiles, "output")
    IN  [ threw          |-> Len(referenceFiles) + Len(themeFiles) + Len(outputFiles) = 0,
          outputFiles    |-> outputFiles,
          themeFiles     |-> themeFiles,
          referenceFiles |-> referenceFiles,
          allFiles       |-> allFilesOf(referenceFiles, themeFiles, outputFiles) ]

\* A derivation that strips ".inp.json" only.
getOutputFileNameShortSuffix(inputPath) ==
    LET base == basename(inputPath)
        name == IF EndsWith(base, ".inp.json") THEN DropLast(base, Len(".inp.json"))
                ELSE base
    IN  name \o ".vars.gen.css"

\* getOutputFileName: basename.replace(/\.(theme\.)?inp\.json$/, "") and the
\* new suffix.  The regex matches at the leftmost place it can, so a trailing
\* ".theme.inp.json" is removed whole; without a match nothing is removed.
getOutputFileName(inputPath) ==
    LET base == basename(inputPath)
        name == IF EndsWith(base, ".theme.inp.json") THEN DropLast(base, Len(".theme.inp.json"))
                ELSE IF EndsWith(base, ".inp.json") THEN DropLast(base, Len(".inp.json"))
                ELSE base
    IN  name \o ".vars.gen.css"

\* getThemeName: basename.replace(/\.theme\.inp\.json$/, "")
getThemeName(inputPath) ==
    LET base == basename(inputPath)
    IN  IF EndsWith(base, ".theme.inp.json") THEN DropLast(base, Len(".theme.inp.json"))
        ELSE base

themeSelector(inputFile) ==
    "[data-mantine-color-scheme='" \o getThemeName(inputFile) \o "']"

\* ------------------------------------------------------------------ engine

\* The token engine is an external library.  It is modelled by the policy the
\* tool relies on: every source is loaded, a node carrying $value is a token,
\* the sources are merged in list order so that a later source shadows an
\* earlier one at the same path, and the file's filter picks the tokens to
\* emit.  A source that is not JSON makes the build fail.

\* The tokens of one document: path (the sequence of keys) and $value.
RECURSIVE engineTokens(_, _)
engineTokens(node, path) ==
    UNION { LET value   == Fields(node)[key]
                newPath == Append(path, key)
            IN  IF ~IsObject(value) THEN {}
                ELSE IF HasKey(value, "$value")
                  THEN {[path |-> newPath, value |-> value.f["$value"]]}
                ELSE engineTokens(value, newPath)
          : key \in DOMAIN Fields(node) }

\* The tokens one source file contributes, as a function of the path.
sourceTokens(file, texts) ==
    LET toks == engineTokens(JSONparse(texts[file]), << >>)
    IN  [p \in {t.path : t \in toks} |->
            [value  |-> (CHOOSE t \in toks : t.path = p).value,
             origin |-> file]]

\* The merged corpus of a source list: the last source defining a path wins.
RECURSIVE mergeSources(_, _)
mergeSources(sources, texts) ==
    IF sources = << >> THEN << >>
    ELSE LET n == Len(sources)
         IN  sourceTokens(sources[n], texts) @@ mergeSources(SubSeq(sources, 1, n - 1), texts)

\* Whether the engine can load every source.
sourcesLoad(sources, texts) ==
    \A i \in DOMAIN sources : ~ParseThrows(texts[sources[i]])

\* A value of the form {a.b.c} is a reference; its target is the path a, b, c.
isReference(s) == Len(s) >= 2 /\ StartsWith(s, "{") /\ EndsWith(s, "}")

RECURSIVE firstDot(_, _)
firstDot(s, k) ==
    IF k > Len(s) THEN 0
    ELSE IF SubSeq(s, k, k) = "." THEN k
    ELSE firstDot(s, k + 1)

RECURSIVE splitDots(_)
splitDots(s) ==
    LET k == firstDot(s, 1)
    IN  IF k = 0 THEN << s >>
        ELSE << SubSeq(s, 1, k - 1) >> \o splitDots(SubSeq(s, k + 1, Len(s)))

referenceTarget(s) == splitDots(SubSeq(s, 2, Len(s) - 1))

\* String.prototype.toLowerCase on the letters A-Z; every other character is
\* its own lower case.
UpperCase == "ABCDEFGHIJKLMNOPQRSTUVWXYZ"
LowerCase == "abcdefghijklmnopqrstuvwxyz"

LowerTable ==
    [c \in {SubSeq(UpperCase, k, k) : k \in 1..Len(UpperCase)} |->
        LET k == CHOOSE n \in 1..Len(UpperCase) : SubSeq(UpperCase, n, n) = c
        IN  SubSeq(LowerCase, k, k)]

lowerOf(c) == IF c \in DOMAIN LowerTable THEN LowerTable[c] ELSE c

RECURSIVE toLowerCase(_)
toLowerCase(s) ==
    IF s = "" THEN ""
    ELSE lowerOf(SubSeq(s, 1, 1)) \o toLowerCase(SubSeq(s, 2, Len(s)))

\* The characters \s matches, as far as the sample segments use them.
Whitespace == {" ", "\t", "\n"}

\* A replace that turns every whitespace character into a dash of its own.
RECURSIVE replaceEachWhitespace(_, _)
replaceEachWhitespace(s, inRun) ==
    IF s = "" THEN ""
    ELSE LET c == SubSeq(s, 1, 1)
         IN  (IF c \in Whitespace THEN "-" ELSE c)
             \o replaceEachWhitespace(SubSeq(s, 2, Len(s)), inRun)

\* replace(/\s+/g, "-"): scanning left to right, a maximal run of whitespace
\* becomes one dash; inRun says the previous character was whitespace.
RECURSIVE replaceWhitespaceRuns(_, _)
replaceWhitespaceRuns(s, inRun) ==
    IF s = "" THEN ""
    ELSE LET c    == SubSeq(s, 1, 1)
             rest == SubSeq(s, 2, Len(s))
         IN  IF c \in Whitespace
               THEN (IF inRun THEN "" ELSE "-") \o replaceWhitespaceRuns(rest, TRUE)
             ELSE c \o replaceWhitespaceRuns(rest, FALSE)

\* The callback mapped over the path segments.
transformSegment(segment) == replaceWhitespaceRuns(toLowerCase(segment), FALSE)

\* The registered name transform: token.path mapped and joined with dashes.
nameTransform(path) ==
    join([k \in DOMAIN path |-> transformSegment(path[k])], "-")

\* The text of a custom property's value.  A reference whose target is in
\* the corpus is written as var(--<name of the target>) when references are
\* kept, and as the target's own value otherwise; anything else is written
\* as it stands.
renderValue(value, corpus, keepReferences) ==
    IF value.t # "str" THEN ""
    ELSE IF isReference(value.s) /\ referenceTarget(value.s) \in DOMAIN corpus
      THEN LET target == referenceTarget(value.s)
           IN  IF keepReferences THEN "var(--" \o nameTransform(target) \o ")"
               ELSE IF corpus[target].value.t = "str" THEN corpus[target].value.s
               ELSE ""
    ELSE value.s

\* options.outputReferences of the one file of the css platform.
outputReferencesOff == FALSE
outputReferences == TRUE

\* The filter handed to the engine: token.path.join(".") is one of the paths of
\* this file.
filterAccepts(tokenPath, tokenPathsInFile) ==
    join(tokenPath, ".") \in tokenPathsInFile

\* The tokens emitted into the destination: the merged corpus, filtered.
engineBuild(sources, texts, tokenPathsInFile) ==
    LET corpus == mergeSources(sources, texts)
    IN  { [path |-> p, value |-> corpus[p].value, origin |-> corpus[p].origin,
           name |-> nameTransform(p),
           css  |-> renderValue(corpus[p].value, corpus, outputReferences)]
          : p \in {q \in DOMAIN corpus : filterAccepts(q, tokenPathsInFile)} }

\* --------------------------------------------------------------- transform

HomeDir == "/home/u"
WorkDir == "/work"

\* resolveOutputDir: a leading ~ is the home directory, anything else is
\* resolved against the working directory.
resolveOutputDir(outputDir) ==
    IF StartsWith(outputDir, "~")
      THEN HomeDir \o SubSeq(outputDir, 2, Len(outputDir))
    ELSE IF StartsWith(outputDir, "/") THEN outputDir
    ELSE pathJoin(WorkDir, outputDir)

\* processTokenFile, from its first line to its return or throw.  engineOk is
\* the outcome of sd.buildAllPlatforms() when the sources load.
processTokenFile(inputFile, allSourceFiles, outputDir, selector, texts, engineOk) ==
    LET outputFileName   == getOutputFileName(inputFile)
        outputPath       == pathJoin(outputDir, outputFileName)
        text             == texts[inputFile]
        inputContent     == JSONparse(text)
        \* JSON.parse throws; Object.values(null) throws; the validation throws
        early            == \/ ParseThrows(text)
                            \/ inputContent = JNull
                            \/ validateDTCGFormatThrows(inputContent)
        tokenCount       == countTokens(inputContent)
        tokenPathsInFile == extractTokenPaths(inputContent, << >>)
        built            == engineOk /\ sourcesLoad(allSourceFiles, texts)
    IN  [ inputPath      |-> inputFile,
          outputFileName |-> outputFileName,
          outputPath     |-> outputPath,
          selector       |-> selector,
          engineInvoked  |-> ~early,
          sources        |-> IF early THEN << >> ELSE allSourceFiles,
          threw          |-> early \/ ~built,
          tokenCount     |-> IF early THEN 0 ELSE tokenCount,
          tokens         |-> IF early \/ ~built THEN {}
                             ELSE engineBuild(allSourceFiles, texts, tokenPathsInFile) ]

\* ------------------------------------------------- the compiled transform

\* processTokenFile of dist/transform.js: the document is parsed, counted and
\* handed to the engine; there is no format validation.
processTokenFileDist(inputFile, allSourceFiles, outputDir, selector, texts, engineOk) ==
    LET outputFileName   == getOutputFileName(inputFile)
        outputPath       == pathJoin(outputDir, outputFileName)
        text             == texts[inputFile]
        inputContent     == JSONparse(text)
        \* JSON.parse throws; Object.values(null) throws
        early            == ParseThrows(text) \/ inputContent = JNull
        tokenCount       == countTokens(inputContent)
        tokenPathsInFile == extractTokenPaths(inputContent, << >>)
        built            == engineOk /\ sourcesLoad(allSourceFiles, texts)
    IN  [ inputPath      |-> inputFile,
          outputFileName |-> outputFileName,
          outputPath     |-> outputPath,
          selector       |-> selector,
          engineInvoked  |-> ~early,
          sources        |-> IF early THEN << >> ELSE allSourceFiles,
          threw          |-> early \/ ~built,
          tokenCount     |-> IF early THEN 0 ELSE tokenCount,
          tokens         |-> IF early \/ ~built THEN {}
                             ELSE engineBuild(allSourceFiles, texts, tokenPathsInFile) ]

Returned(r) == ~r.threw
EngineInvoked(r) == r.engineInvoked

RECURSIVE sumOfCounts(_)
sumOfCounts(rs) ==
    IF rs = << >> THEN 0 ELSE Head(rs).tokenCount + sumOfCounts(Tail(rs))

\* transformTokens of dist/transform.js from its loops to its return: the
\* output files with :root, then the theme files with their selector, each in
\* a try/catch; engineOks[k] is the engine's outcome for the k-th file.
transformTokensDist(discoveredFiles, outputDir, texts, engineOks) ==
    LET nOut   == Len(discoveredFiles.outputFiles)
        order  == discoveredFiles.outputFiles \o discoveredFiles.themeFiles
        calls  == [k \in DOMAIN order |->
                     processTokenFileDist(order[k], discoveredFiles.allFiles,
                                          resolveOutputDir(outputDir),
                                          IF k <= nOut THEN ":root"
                                          ELSE themeSelector(order[k]),
                                          texts, engineOks[k])]
        good   == SelectSeq(calls, Returned)
        engine == SelectSeq(calls, EngineInvoked)
    IN  [ results     |-> [k \in DOMAIN good |->
                             [ outputPath |-> good[k].outputPath,
                               tokenCount |-> good[k].tokenCount,
                               inputPath  |-> good[k].inputPath ]],
          stats       |-> [ tokensProcessed |-> sumOfCounts(good),
                            tokensSkipped   |-> Len(calls) - Len(good) ],
          engineFiles |-> [k \in DOMAIN engine |-> engine[k].inputPath] ]

\* ------------------------------------------------------------------- state

VARIABLES
    pc,             \* where run() stands: start, discover, transform, loop,
                    \* summary, catch, finally, exited
    zipKind,        \* what the archive path names (input)
    fs,             \* the listing the archive extracts to (input)
    tempDir,        \* run's tempDir: NULL until extractZip has returned
    scratchExists,  \* whether a scratch directory is on disk
    rmFailed,       \* whether an rmSync of the scratch directory has thrown
    cleanupCalled,  \* whether cleanupTempDir has been called
    discovered,     \* the DiscoveredFiles of the run
    outDirCreated,  \* whether transformTokens created the output directory
    outDirReady,    \* whether transformTokens found or made the output directory
    registered,     \* whether the name transform is registered
    i, j,           \* next index into outputFiles / themeFiles
    results,        \* TransformResult[] of transformTokens
    stats,          \* ProcessingStats of transformTokens
    attempts,       \* the calls of processTokenFile so far, in order
    cssFiles,       \* the generated files on disk, by output path
    exitCode,       \* the process's exit code, -1 while it runs
    doc,            \* a parsed document handed to the inspection walks alone
    segs,           \* a token path handed to the name transform alone
    report          \* what the walks or the name transform returned for it

vars == << pc, zipKind, fs, tempDir, scratchExists, rmFailed, cleanupCalled,
           discovered, outDirCreated, outDirReady, registered, i, j, results,
           stats, attempts, cssFiles, exitCode, doc, segs, report >>

\* The variables run() never touches.
aloneVars == << doc, segs, report >>

NoReport == [ kind |-> "none" ]

ZipKinds == {"missing", "notfile", "badext", "empty", "corrupt", "ok"}

ScratchDir == "/tmp/dt-Ab12"
OutputDirOption == "~/out"

NoFiles == [ threw |-> FALSE, outputFiles |-> << >>, themeFiles |-> << >>,
             referenceFiles |-> << >>, allFiles |-> << >> ]

NoStats == [ tokensProcessed |-> 0, tokensSkipped |-> 0, outputTokenCounts |-> << >> ]

Init ==
    /\ pc = "start"
    /\ zipKind \in ZipKinds
    /\ fs \in (IF zipKind = "ok" THEN Listings ELSE {<< >>})
    /\ tempDir = NULL
    /\ scratchExists = FALSE
    /\ rmFailed = FALSE
    /\ cleanupCalled = FALSE
    /\ discovered = NoFiles
    /\ outDirCreated = FALSE
    /\ outDirReady = FALSE
    /\ registered = FALSE
    /\ i = 1
    /\ j = 1
    /\ results = << >>
    /\ stats = NoStats
    /\ attempts = << >>
    /\ cssFiles = << >>
    /\ exitCode = -1
    /\ doc = JNull
    /\ segs = << >>
    /\ report = NoReport

scratchTexts == fileTexts(ScratchDir, fs)

\* The state of run() left alone: used where a function is called on its own.
pipelineVars == << pc, zipKind, fs, tempDir, scratchExists, rmFailed, cleanupCalled,
                   discovered, outDirCreated, outDirReady, registered, i, j, results,
                   stats, attempts, cssFiles, exitCode >>

NotRunning ==
    /\ pc = "alone"
    /\ zipKind = "missing"
    /\ fs = << >>
    /\ tempDir = NULL
    /\ scratchExists = FALSE
    /\ rmFailed = FALSE
    /\ cleanupCalled = FALSE
    /\ discovered = NoFiles
    /\ outDirCreated = FALSE
    /\ outDirReady = FALSE
    /\ registered = FALSE
    /\ i = 1
    /\ j = 1
    /\ results = << >>
    /\ stats = NoStats
    /\ attempts = << >>
    /\ cssFiles = << >>
    /\ exitCode = -1

\* ------------------------------------------------------------------ unzip

\* An extractZip whose catch block rethrows without removing the directory.
ExtractZipKeepsScratch ==
    /\ pc = "start"
    /\ \/ /\ zipKind \in {"missing", "notfile", "badext"}
          /\ pc' = "catch"
          /\ UNCHANGED << tempDir, scratchExists, rmFailed >>
       \/ /\ zipKind \in {"empty", "corrupt"}
          /\ scratchExists' = TRUE
          /\ pc' = "catch"
          /\ UNCHANGED << tempDir, rmFailed >>
       \/ /\ zipKind = "ok"
          /\ tempDir' = ScratchDir
          /\ scratchExists' = TRUE
          /\ pc' = "discover"
          /\ UNCHANGED rmFailed
    /\ UNCHANGED << zipKind, fs, cleanupCalled, discovered, outDirCreated, outDirReady,
                    registered, i, j, results, stats, attempts, cssFiles, exitCode >>
    /\ UNCHANGED aloneVars

\* extractZip: the three checks throw before a scratch directory exists; a
\* failure after mkdtemp removes the directory (rmSync may itself fail, which
\* is ignored) and throws; success returns the directory.
ExtractZip ==
    /\ pc = "start"
    /\ \/ /\ zipKind \in {"missing", "notfile", "badext"}
          /\ pc' = "catch"
          /\ UNCHANGED << tempDir, scratchExists, rmFailed >>
       \/ /\ zipKind \in {"empty", "corrupt"}
          /\ \E rmOk \in BOOLEAN : /\ scratchExists' = ~rmOk
                                   /\ rmFailed' = ~rmOk
          /\ pc' = "catch"
          /\ UNCHANGED tempDir
       \/ /\ zipKind = "ok"
          /\ tempDir' = ScratchDir
          /\ scratchExists' = TRUE
          /\ pc' = "discover"
          /\ UNCHANGED rmFailed
    /\ UNCHANGED << zipKind, fs, cleanupCalled, discovered, outDirCreated, outDirReady,
                    registered, i, j, results, stats, attempts, cssFiles, exitCode >>
    /\ UNCHANGED aloneVars

\* cleanupTempDir: removes the directory when it exists; a failing rmSync is
\* logged and swallowed.
cleanupTempDir(rmOk) ==
    /\ cleanupCalled' = TRUE
    /\ scratchExists' = (scratchExists /\ ~rmOk)
    /\ rmFailed' = (rmFailed \/ (scratchExists /\ ~rmOk))

\* --------------------------------------------------------------------- run

\* A run that goes on to transformTokens whatever was discovered.
DiscoverNoEarlyReturn ==
    /\ pc = "discover"
    /\ LET d == discoverTokenFiles(tempDir, fs)
       IN  IF d.threw
             THEN pc' = "catch" /\ UNCHANGED discovered
           ELSE /\ discovered' = d
                /\ pc' = "transform"
    /\ UNCHANGED << zipKind, fs, tempDir, scratchExists, rmFailed, cleanupCalled,
                    outDirCreated, outDirReady, registered, i, j, results, stats,
                    attempts, cssFiles, exitCode >>
    /\ UNCHANGED aloneVars

\* Step 2 of run and the check after it: discovery throws into the catch
\* block, nothing to transform returns early, otherwise on to transformTokens.
Discover ==
    /\ pc = "discover"
    /\ LET d == discoverTokenFiles(tempDir, fs)
       IN  IF d.threw
             THEN pc' = "catch" /\ UNCHANGED discovered
           ELSE /\ discovered' = d
                /\ pc' = IF Len(d.outputFiles) + Len(d.themeFiles) = 0
                           THEN "finally" ELSE "transform"
    /\ UNCHANGED << zipKind, fs, tempDir, scratchExists, rmFailed, cleanupCalled,
                    outDirCreated, outDirReady, registered, i, j, results, stats,
                    attempts, cssFiles, exitCode >>
    /\ UNCHANGED aloneVars

\* A transformTokens that goes to its loops without making the directory.
TransformBeginNoMkdir ==
    /\ pc = "transform"
    /\ registered' = TRUE
    /\ \E exists \in BOOLEAN :
          /\ outDirReady' = exists
          /\ pc' = "loop"
          /\ UNCHANGED outDirCreated
    /\ results' = << >>
    /\ stats' = NoStats
    /\ i' = 1
    /\ j' = 1
    /\ UNCHANGED << zipKind, fs, tempDir, scratchExists, rmFailed, cleanupCalled,
                    discovered, attempts, cssFiles, exitCode >>
    /\ UNCHANGED aloneVars

\* transformTokens up to its loops: the transform is registered, the output
\* directory is created when missing (mkdirSync may throw, which leaves
\* transformTokens), results and stats start empty.
TransformBegin ==
    /\ pc = "transform"
    /\ registered' = TRUE
    /\ \E exists \in BOOLEAN, mkdirOk \in BOOLEAN :
          \/ /\ exists
             /\ mkdirOk
             /\ outDirReady' = TRUE
             /\ pc' = "loop"
             /\ UNCHANGED outDirCreated
          \/ /\ ~exists
             /\ mkdirOk
             /\ outDirCreated' = TRUE
             /\ outDirReady' = TRUE
             /\ pc' = "loop"
          \/ /\ ~exists
             /\ ~mkdirOk
             /\ pc' = "catch"
             /\ UNCHANGED << outDirCreated, outDirReady >>
    /\ results' = << >>
    /\ stats' = NoStats
    /\ i' = 1
    /\ j' = 1
    /\ UNCHANGED << zipKind, fs, tempDir, scratchExists, rmFailed, cleanupCalled,
                    discovered, attempts, cssFiles, exitCode >>
    /\ UNCHANGED aloneVars

\* A loop body whose catch block forgets to count the failed file.
recordUncounted(r) ==
    IF r.threw
      THEN UNCHANGED << stats, results, cssFiles >>
    ELSE /\ results' = Append(results, [ outputPath |-> r.outputPath,
                                          tokenCount |-> r.tokenCount,
                                          inputPath  |-> r.inputPath ])
         /\ stats' = [stats EXCEPT
                        !.tokensProcessed = @ + r.tokenCount,
                        !.outputTokenCounts = (r.outputPath :> r.tokenCount) @@ @]
         /\ cssFiles' = (r.outputPath :> [ inputPath |-> r.inputPath,
                                           selector  |-> r.selector,
                                           tokens    |-> r.tokens ]) @@ cssFiles

\* The body of either loop for one file: try processTokenFile, on return push
\* the result and add to the stats, on a throw count the file as skipped.
record(r) ==
    IF r.threw
      THEN /\ stats' = [stats EXCEPT !.tokensSkipped = @ + 1]
           /\ UNCHANGED << results, cssFiles >>
    ELSE /\ results' = Append(results, [ outputPath |-> r.outputPath,
                                          tokenCount |-> r.tokenCount,
                                          inputPath  |-> r.inputPath ])
         /\ stats' = [stats EXCEPT
                        !.tokensProcessed = @ + r.tokenCount,
                        !.outputTokenCounts = (r.outputPath :> r.tokenCount) @@ @]
         /\ cssFiles' = (r.outputPath :> [ inputPath |-> r.inputPath,
                                           selector  |-> r.selector,
                                           tokens    |-> r.tokens ]) @@ cssFiles

attempt(r) ==
    [ inputPath |-> r.inputPath, outputFileName |-> r.outputFileName,
      outputPath |-> r.outputPath, selector |-> r.selector,
      engineInvoked |-> r.engineInvoked, sources |-> r.sources, threw |-> r.threw ]

ProcessOutputFile ==
    /\ pc = "loop"
    /\ i <= Len(discovered.outputFiles)
    /\ \E engineOk \in BOOLEAN :
          LET inputFile == discovered.outputFiles[i]
              r == processTokenFile(inputFile, discovered.allFiles,
                                    resolveOutputDir(OutputDirOption), ":root",
                                    scratchTexts, engineOk)
          IN  /\ record(r)
              /\ attempts' = Append(attempts, attempt(r))
    /\ i' = i + 1
    /\ UNCHANGED << pc, zipKind, fs, tempDir, scratchExists, rmFailed, cleanupCalled,
                    discovered, outDirCreated, outDirReady, registered, j, exitCode >>
    /\ UNCHANGED aloneVars

ProcessThemeFile ==
    /\ pc = "loop"
    /\ i > Len(discovered.outputFiles)
    /\ j <= Len(discovered.themeFiles)
    /\ \E engineOk \in BOOLEAN :
          LET inputFile == discovered.themeFiles[j]
              r == processTokenFile(inputFile, discovered.allFiles,
                                    resolveOutputDir(OutputDirOption),
                                    themeSelector(inputFile), scratchTexts, engineOk)
          IN  /\ record(r)
              /\ attempts' = Append(attempts, attempt(r))
    /\ j' = j + 1
    /\ UNCHANGED << pc, zipKind, fs, tempDir, scratchExists, rmFailed, cleanupCalled,
                    discovered, outDirCreated, outDirReady, registered, i, exitCode >>
    /\ UNCHANGED aloneVars

\* Both loops are done: transformTokens returns { results, stats }.
TransformReturn ==
    /\ pc = "loop"
    /\ i > Len(discovered.outputFiles)
    /\ j > Len(discovered.themeFiles)
    /\ pc' = "summary"
    /\ UNCHANGED << zipKind, fs, tempDir, scratchExists, rmFailed, cleanupCalled,
                    discovered, outDirCreated, outDirReady, registered, i, j, results,
                    stats, attempts, cssFiles, exitCode >>
    /\ UNCHANGED aloneVars

\* A run that treats an empty results list as a failure.
SummaryFailsOnNoResults ==
    /\ pc = "summary"
    /\ pc' = IF results = << >> THEN "catch" ELSE "finally"
    /\ UNCHANGED << zipKind, fs, tempDir, scratchExists, rmFailed, cleanupCalled,
                    discovered, outDirCreated, outDirReady, registered, i, j, results,
                    stats, attempts, cssFiles, exitCode >>
    /\ UNCHANGED aloneVars

\* Step 4 of run: the summary and the success line; the try block ends.
Summary ==
    /\ pc = "summary"
    /\ pc' = "finally"
    /\ UNCHANGED << zipKind, fs, tempDir, scratchExists, rmFailed, cleanupCalled,
                    discovered, outDirCreated, outDirReady, registered, i, j, results,
                    stats, attempts, cssFiles, exitCode >>
    /\ UNCHANGED aloneVars

\* The catch block: it logs and calls process.exit(1), which ends the process
\* there; control never reaches the finally block.
Catch ==
    /\ pc = "catch"
    /\ exitCode' = 1
    /\ pc' = "exited"
    /\ UNCHANGED << zipKind, fs, tempDir, scratchExists, rmFailed, cleanupCalled,
                    discovered, outDirCreated, outDirReady, registered, i, j, results,
                    stats, attempts, cssFiles >>
    /\ UNCHANGED aloneVars

\* The finally block after the try block completed or returned: cleanup when
\* tempDir is set; run() resolves and the process ends with code 0.
Finally ==
    /\ pc = "finally"
    /\ IF tempDir # NULL
         THEN \E rmOk \in BOOLEAN : cleanupTempDir(rmOk)
       ELSE UNCHANGED << cleanupCalled, scratchExists, rmFailed >>
    /\ exitCode' = 0
    /\ pc' = "exited"
    /\ UNCHANGED << zipKind, fs, tempDir, discovered, outDirCreated, outDirReady,
                    registered, i, j, results, stats, attempts, cssFiles >>
    /\ UNCHANGED aloneVars

Next ==
    \/ ExtractZip
    \/ Discover
    \/ TransformBegin
    \/ ProcessOutputFile
    \/ ProcessThemeFile
    \/ TransformReturn
    \/ Summary
    \/ Catch
    \/ Finally

Spec == Init /\ [][Next]_vars

\* ------------------------------------------------- the walks on their own

\* Keys a document may use; one of them holds the path separator.
SampleKeys == {"a", "b", "a.b", "value"}

\* What may sit below the root's children: a primitive, a token, a token that
\* holds a token-like child, an array holding a token-like element, a token
\* whose $value is an object with a `value` key.
SampleLeaves ==
    { Str("x"),
      Token("#111"),
      Obj("$value" :> Str("#222") @@ "b" :> Token("#333")),
      Arr("0" :> Token("#444")),
      Obj("$value" :> Obj("value" :> Str("4") @@ "unit" :> Str("px"))) }

\* Largest number of keys of a document's root.
MaxKeys == 2

SampleGroups == { Obj(k :> v) : k \in SampleKeys, v \in SampleLeaves }

SampleDocs ==
    { Obj(f) : f \in UNION { [S -> SampleLeaves \cup SampleGroups]
                              : S \in {T \in SUBSET SampleKeys :
                                         Cardinality(T) \in 1..MaxKeys} } }

NoWalks == [ kind |-> "walks", counted |-> FALSE, count |-> 0,
             extracted |-> FALSE, paths |-> {},
             validated |-> FALSE, threw |-> FALSE ]

WalkInit ==
    /\ NotRunning
    /\ doc \in SampleDocs
    /\ segs = << >>
    /\ report = NoWalks

\* countTokens(doc)
CallCountTokens ==
    /\ report.kind = "walks"
    /\ ~report.counted
    /\ report' = [report EXCEPT !.counted = TRUE, !.count = countTokens(doc)]
    /\ UNCHANGED << pipelineVars, doc, segs >>

\* extractTokenPaths(doc)
CallExtractTokenPaths ==
    /\ report.kind = "walks"
    /\ ~report.extracted
    /\ report' = [report EXCEPT !.extracted = TRUE,
                                !.paths = extractTokenPaths(doc, << >>)]
    /\ UNCHANGED << pipelineVars, doc, segs >>

\* validateDTCGFormat(doc, fileName)
CallValidateDTCGFormat ==
    /\ report.kind = "walks"
    /\ ~report.validated
    /\ report' = [report EXCEPT !.validated = TRUE,
                                !.threw = validateDTCGFormatThrows(doc)]
    /\ UNCHANGED << pipelineVars, doc, segs >>

WalkNext ==
    \/ CallCountTokens
    \/ CallExtractTokenPaths
    \/ CallValidateDTCGFormat

WalkSpec == WalkInit /\ [][WalkNext]_vars

\* ---------------------------------------- the name transform on its own

\* The characters of the sample segments: an upper-case and a lower-case
\* letter, two kinds of whitespace, the dash.
SampleChars == {"A", "b", " ", "\t", "-"}

\* Largest length of a sample segment.
MaxSegLen == 2

RECURSIVE StringsUpTo(_)
StringsUpTo(n) ==
    IF n = 0 THEN {""}
    ELSE LET shorter == StringsUpTo(n - 1)
         IN  shorter \cup {s \o c : s \in shorter, c \in SampleChars}

SampleSegments == StringsUpTo(MaxSegLen)

\* Token paths of one and of two segments.
SamplePaths ==
    {<< s >> : s \in SampleSegments} \cup (SampleSegments \X SampleSegments)

NoName == [ kind |-> "name", called |-> FALSE, segments |-> << >>, name |-> "",
            again |-> << >> ]

NameInit ==
    /\ NotRunning
    /\ doc = JNull
    /\ segs \in SamplePaths
    /\ report = NoName

\* The transform applied to a token with path segs; `again` holds the
\* callback applied to each of its own results.
CallNameTransform ==
    /\ report.kind = "name"
    /\ ~report.called
    /\ LET once == [k \in DOMAIN segs |-> transformSegment(segs[k])]
       IN  report' = [ kind     |-> "name",
                       called   |-> TRUE,
                       segments |-> once,
                       name     |-> nameTransform(segs),
                       again    |-> [k \in DOMAIN once |-> transformSegment(once[k])] ]
    /\ UNCHANGED << pipelineVars, doc, segs >>

NameNext == CallNameTransform

NameSpec == NameInit /\ [][NameNext]_vars

\* ------------------------------------------------------------ properties

Range(seq) == {seq[k] : k \in DOMAIN seq}

NoRepeats(seq) == \A a, b \in DOMAIN seq : a # b => seq[a] # seq[b]

\* The regular files of the extracted tree, by full path.
RegularFiles == DOMAIN scratchTexts

\* discoverTokenFiles has returned its buckets.
Discovered == discovered # NoFiles

\* transformTokens has returned to run().
TransformReturned ==
    \/ pc = "summary"
    \/ pc \in {"finally", "exited"} /\ registered /\ exitCode # 1

IsReferenceName(file) == EndsWith(basename(file), ".ref.inp.json")

\* The token nodes of a file's own document, as key sequences with values.
OwnTokens(file) == engineTokens(JSONparse(scratchTexts[file]), << >>)

\* C1: whenever extractZip returned a scratch directory, cleanupTempDir has
\* been called on it by the time the process has exited, on every path.
C1_CleanupBeforeExit ==
    (pc = "exited" /\ tempDir # NULL) => cleanupCalled

\* C2: two documents that both produced output (at different output paths)
\* and define the same path with different values each hold their own value
\* for that path in their own CSS file.
C2_OwnValueOnCollision ==
    \A outF, outG \in DOMAIN cssFiles :
        LET F == cssFiles[outF].inputPath
            G == cssFiles[outG].inputPath
        IN  \A tf \in OwnTokens(F), tg \in OwnTokens(G) :
                (outF # outG /\ tf.path = tg.path /\ tf.value # tg.value)
                => \A t \in cssFiles[outF].tokens :
                        t.path = tf.path => t.value = tf.value

\* C3: the tokens emitted into the CSS file of a successfully processed file
\* are exactly the tokens of that file's own document: none that only another
\* file defines, and all of its own.
C3_EmittedAreOwnTokens ==
    \A out \in DOMAIN cssFiles :
        {t.path : t \in cssFiles[out].tokens}
            = {o.path : o \in OwnTokens(cssFiles[out].inputPath)}

\* C4: a file named *.ref.inp.json is in the reference bucket and in no other,
\* processTokenFile is never called on it, no result and no CSS file comes
\* from it, and it is among the sources of every engine invocation.
C4_ReferenceNeverProcessed ==
    /\ Discovered =>
         \A f \in RegularFiles : IsReferenceName(f) =>
            /\ f \in Range(discovered.referenceFiles)
            /\ f \notin Range(discovered.themeFiles)
            /\ f \notin Range(discovered.outputFiles)
            /\ \A k \in DOMAIN attempts :
                   attempts[k].engineInvoked => f \in Range(attempts[k].sources)
    /\ \A k \in DOMAIN attempts : ~IsReferenceName(attempts[k].inputPath)
    /\ \A k \in DOMAIN results : ~IsReferenceName(results[k].inputPath)
    /\ \A out \in DOMAIN cssFiles : ~IsReferenceName(cssFiles[out].inputPath)

C4_Witness ==
    /\ pc = "exited"
    /\ \E f \in RegularFiles : IsReferenceName(f)
    /\ \E k \in DOMAIN attempts : attempts[k].engineInvoked
    /\ results # << >>

\* C5: every regular file is bucketed by the first matching suffix (reference,
\* then theme, then output), the buckets are pairwise disjoint, every regular
\* file ending in .inp.json is in exactly one bucket, once, and nothing else
\* (no directory, no other suffix) is in any bucket.
C5_Classification ==
    Discovered =>
        LET ref == discovered.referenceFiles
            thm == discovered.themeFiles
            out == discovered.outputFiles
        IN  /\ \A f \in RegularFiles :
                 LET b == basename(f)
                     isRef == EndsWith(b, ".ref.inp.json")
                     isThm == ~isRef /\ EndsWith(b, ".theme.inp.json")
                     isOut == ~isRef /\ ~isThm /\ EndsWith(b, ".inp.json")
                 IN  /\ f \in Range(ref) <=> isRef
                     /\ f \in Range(thm) <=> isThm
                     /\ f \in Range(out) <=> isOut
            /\ Range(ref) \cap Range(thm) = {}
            /\ Range(ref) \cap Range(out) = {}
            /\ Range(thm) \cap Range(out) = {}
            /\ Range(ref) \cup Range(thm) \cup Range(out) \subseteq RegularFiles
            /\ NoRepeats(ref) /\ NoRepeats(thm) /\ NoRepeats(out)

C5_Witness ==
    /\ Discovered
    /\ discovered.referenceFiles # << >>
    /\ discovered.themeFiles # << >>
    /\ discovered.outputFiles # << >>
    /\ \E e \in Range(fs) : e.kind = "dir"

\* C6: a failing file never stops the loops: when transformTokens returns,
\* every file of the output bucket and then of the theme bucket has been
\* attempted exactly once, every failed attempt added one to tokensSkipped and
\* no result, so results.length + tokensSkipped = |outputFiles| + |themeFiles|.
C6_EveryFileAttemptedOnce ==
    /\ pc = "loop" =>
         Len(results) + stats.tokensSkipped = Len(attempts)
    /\ TransformReturned =>
         /\ [k \in DOMAIN attempts |-> attempts[k].inputPath]
               = discovered.outputFiles \o discovered.themeFiles
         /\ stats.tokensSkipped
               = Cardinality({k \in DOMAIN attempts : attempts[k].threw})
         /\ Len(results)
               = Cardinality({k \in DOMAIN attempts : ~attempts[k].threw})
         /\ Len(results) + stats.tokensSkipped
               = Len(discovered.outputFiles) + Len(discovered.themeFiles)

C6_Witness ==
    /\ TransformReturned
    /\ Len(attempts) >= 2
    /\ attempts[1].threw
    /\ ~attempts[2].threw

\* Some object node of the document, the root included, has a `value` key and
\* no `$value` key.
RECURSIVE LegacyAnywhere(_)
LegacyAnywhere(node) ==
    /\ IsObject(node)
    /\ \/ HasKey(node, "value") /\ ~HasKey(node, "$value")
       \/ \E k \in DOMAIN node.f : LegacyAnywhere(node.f[k])

\* C7: a file whose document has, at the root or at any depth, an object with
\* a `value` key and no `$value` key fails before the engine is invoked and is
\* counted as skipped.
C7_LegacyRejectedAnywhere ==
    \A k \in DOMAIN attempts :
        LET text == scratchTexts[attempts[k].inputPath]
        IN  (~ParseThrows(text) /\ LegacyAnywhere(JSONparse(text)))
            => (attempts[k].threw /\ ~attempts[k].engineInvoked)

\* C8: any two distinct files of the theme and output buckets are written to
\* distinct output paths.
C8_DistinctOutputPaths ==
    \A a, b \in DOMAIN attempts :
        attempts[a].inputPath # attempts[b].inputPath
        => attempts[a].outputPath # attempts[b].outputPath

\* C9: an output-bucket file X.inp.json is built as X.vars.gen.css under
\* :root; a theme-bucket file X.theme.inp.json is built as X.vars.gen.css
\* under [data-mantine-color-scheme='X'], X verbatim.
C9_NamesAndSelectors ==
    /\ \A k \in DOMAIN attempts :
         LET a == attempts[k]
             b == basename(a.inputPath)
         IN  /\ a.inputPath \in Range(discovered.outputFiles) =>
                  LET X == DropLast(b, Len(".inp.json"))
                  IN  /\ b = X \o ".inp.json"
                      /\ a.outputFileName = X \o ".vars.gen.css"
                      /\ a.selector = ":root"
             /\ a.inputPath \in Range(discovered.themeFiles) =>
                  LET X == DropLast(b, Len(".theme.inp.json"))
                  IN  /\ b = X \o ".theme.inp.json"
                      /\ a.outputFileName = X \o ".vars.gen.css"
                      /\ a.selector = "[data-mantine-color-scheme='" \o X \o "']"
    /\ TransformReturned =>
         Range(discovered.outputFiles) \cup Range(discovered.themeFiles)
            = {attempts[k].inputPath : k \in DOMAIN attempts}

C9_Witness ==
    /\ TransformReturned
    /\ \E k \in DOMAIN attempts :
          attempts[k].inputPath \in Range(discovered.outputFiles)
    /\ \E k \in DOMAIN attempts :
          /\ attempts[k].inputPath \in Range(discovered.themeFiles)
          /\ attempts[k].engineInvoked

\* The files of seq come in the order of the enumeration `found`.
InOrderOf(seq, found) ==
    \A a, b \in DOMAIN seq : a < b =>
        \E x, y \in DOMAIN found : x < y /\ found[x] = seq[a] /\ found[y] = seq[b]

\* C10: allFiles is reference ++ theme ++ output, each bucket in discovery
\* order; it holds every classified file once and nothing else, and every
\* engine invocation of the run gets that same list as its sources.
C10_AllFilesConcatenation ==
    Discovered =>
        /\ discovered.allFiles
              = discovered.referenceFiles \o discovered.themeFiles \o discovered.outputFiles
        /\ LET found == findFilesRecursive(ScratchDir, fs)
           IN  /\ InOrderOf(discovered.referenceFiles, found)
               /\ InOrderOf(discovered.themeFiles, found)
               /\ InOrderOf(discovered.outputFiles, found)
        /\ Range(discovered.allFiles)
              = {f \in RegularFiles : EndsWith(basename(f), ".inp.json")}
        /\ NoRepeats(discovered.allFiles)
        /\ \A k \in DOMAIN attempts :
              attempts[k].engineInvoked => attempts[k].sources = discovered.allFiles

C10_Witness ==
    /\ pc = "exited"
    /\ discovered.referenceFiles # << >>
    /\ discovered.themeFiles # << >>
    /\ discovered.outputFiles # << >>
    /\ Len(attempts) >= 2
    /\ \A k \in DOMAIN attempts : attempts[k].engineInvoked


\* The token files of the extracted tree: the regular files that land in one
\* of the three buckets.
TokenFilesOnDisk == {f \in RegularFiles : EndsWith(basename(f), ".inp.json")}

\* run() is past its call of discoverTokenFiles.
PastDiscovery == tempDir # NULL /\ pc # "discover"

\* C11: discoverTokenFiles throws exactly when the extracted tree holds no
\* file for any of the three buckets; such a run never calls transformTokens,
\* processes no file, writes no CSS file and exits with code 1.
C11_NoTokenFilesExitsOne ==
    PastDiscovery =>
        /\ ~Discovered <=> (TokenFilesOnDisk = {})
        /\ ~Discovered =>
              /\ ~registered
              /\ attempts = << >>
              /\ cssFiles = << >>
              /\ pc \in {"catch", "exited"}
              /\ pc = "exited" => exitCode = 1

C11_Witness ==
    /\ pc = "exited"
    /\ tempDir # NULL
    /\ fs # << >>
    /\ TokenFilesOnDisk = {}
    /\ exitCode = 1


\* The extracted tree holds reference files and no other token file.
OnlyReferenceFilesOnDisk ==
    /\ TokenFilesOnDisk # {}
    /\ \A f \in TokenFilesOnDisk : IsReferenceName(f)

\* C12: when only reference files are discovered, discovery does not throw,
\* and the run never calls transformTokens, generates no CSS file, does not
\* create the output directory, and ends without exit code 1.
C12_OnlyReferenceFiles ==
    (PastDiscovery /\ OnlyReferenceFilesOnDisk) =>
        /\ Discovered
        /\ discovered.referenceFiles # << >>
        /\ discovered.outputFiles = << >> /\ discovered.themeFiles = << >>
        /\ ~registered
        /\ attempts = << >>
        /\ cssFiles = << >>
        /\ ~outDirCreated
        /\ pc \in {"finally", "exited"}
        /\ exitCode # 1
        /\ pc = "exited" => exitCode = 0

C12_Witness ==
    /\ pc = "exited"
    /\ OnlyReferenceFilesOnDisk
    /\ Len(discovered.referenceFiles) >= 1
    /\ exitCode = 0


\* Which call of run()'s try block threw.
ExtractZipThrew == tempDir = NULL /\ pc \in {"catch", "exited"}
DiscoverThrew == tempDir # NULL /\ ~Discovered /\ pc \in {"catch", "exited"}
TransformTokensThrew == registered /\ ~outDirReady /\ pc \in {"catch", "exited"}

\* C13: once extraction and classification succeeded with a theme or output
\* file, failures of single files never lead to exit code 1, not even when
\* every file fails; exit code 1 is reached only when extractZip,
\* discoverTokenFiles or transformTokens itself threw.
C13_ExitOneOnlyOnThrow ==
    /\ attempts # << >> => (pc # "catch" /\ exitCode # 1)
    /\ (pc = "loop" \/ TransformReturned) => exitCode # 1
    /\ pc = "exited" /\ TransformReturned => exitCode = 0
    /\ (pc = "catch" \/ exitCode = 1) =>
          ExtractZipThrew \/ DiscoverThrew \/ TransformTokensThrew

C13_Witness ==
    /\ pc = "exited"
    /\ exitCode = 0
    /\ Len(attempts) >= 2
    /\ \A k \in DOMAIN attempts : attempts[k].threw
    /\ results = << >>
    /\ stats.tokensSkipped = Len(attempts)


\* C14 as stated: whenever extractZip failed, no scratch directory of that
\* call is on disk when the error reaches run().
C14_NoScratchAfterFailure ==
    ExtractZipThrew => ~scratchExists

\* C14: when extractZip fails on one of its three checks no scratch directory
\* was ever created; when it fails after creating one, the removal has been
\* tried before the error reaches run(), and the directory is still on disk
\* only if that removal itself threw.
C14_ScratchRemovalAttempted ==
    ExtractZipThrew =>
        /\ zipKind \in {"missing", "notfile", "badext"} => (~scratchExists /\ ~rmFailed)
        /\ scratchExists <=> rmFailed

C14_Witness ==
    /\ ExtractZipThrew
    /\ zipKind = "empty"
    /\ ~scratchExists
    /\ ~rmFailed
    /\ pc = "exited"


\* The token nodes of a document as the data model has them: the nodes
\* carrying $value that are reached from the root through objects carrying
\* none, by their key sequences.  An array or a primitive is neither a token
\* nor a way to one.
RECURSIVE TokenNodes(_, _)
TokenNodes(node, path) ==
    IF node.t # "obj" THEN {}
    ELSE IF HasKey(node, "$value") THEN {path}
    ELSE UNION { TokenNodes(node.f[k], Append(path, k)) : k \in DOMAIN node.f }

\* C15: countTokens(doc) is the number of token nodes of doc: a node carrying
\* $value counts once and is not descended into, any other object is
\* descended into, arrays and primitives are neither counted nor descended
\* into.
C15_CountIsTokenNodes ==
    (report.kind = "walks" /\ report.counted) =>
        report.count = Cardinality(TokenNodes(doc, << >>))

\* C16: within one document distinct token nodes have distinct dot-joined
\* paths, so extractTokenPaths(doc) has as many elements as countTokens(doc)
\* counts.
C16_PathsMatchCount ==
    (report.kind = "walks" /\ report.counted /\ report.extracted) =>
        /\ \A p, q \in TokenNodes(doc, << >>) :
              p # q => join(p, ".") # join(q, ".")
        /\ Cardinality(report.paths) = report.count


\* The k-th character of s.
CharAt(s, k) == SubSeq(s, k, k)

\* What a segment is to become, position by position: a whitespace character
\* that starts a run gives a dash, one inside a run gives nothing, any other
\* character gives its lower case (a dash gives a dash).
RECURSIVE NormalFrom(_, _)
NormalFrom(s, k) ==
    IF k > Len(s) THEN ""
    ELSE LET c    == CharAt(s, k)
             here == IF c \notin Whitespace THEN lowerOf(c)
                     ELSE IF k > 1 /\ CharAt(s, k - 1) \in Whitespace THEN ""
                     ELSE "-"
         IN  here \o NormalFrom(s, k + 1)

\* C17: the name transform lowercases each segment, turns each run of
\* whitespace into one dash, leaves dashes alone and joins the segments with
\* dashes; per segment it is idempotent, and the name of a path is the
\* dash-join of its normalized segments, whatever the other segments are.
C17_NameTransform ==
    (report.kind = "name" /\ report.called) =>
        /\ Len(report.segments) = Len(segs)
        /\ \A k \in DOMAIN segs :
              /\ report.segments[k] = NormalFrom(segs[k], 1)
              /\ report.again[k] = report.segments[k]
              /\ report.segments[k] = transformSegment(segs[k])
        /\ report.name = join(report.segments, "-")
        /\ Len(segs) = 2 =>
              report.name = nameTransform(<< segs[1] >>) \o "-"
                            \o nameTransform(<< segs[2] >>)

C17_Witness ==
    /\ report.kind = "name"
    /\ report.called
    /\ segs = << "A\t", " b" >>
    /\ report.name = "a---b"


\* The normalized name of a path, position by position.
NormalName(path) == join([k \in DOMAIN path |-> NormalFrom(path[k], 1)], "-")

\* The files of the source list whose own document defines a token at path.
Definers(path) ==
    {f \in Range(discovered.allFiles) : \E u \in OwnTokens(f) : u.path = path}

\* An emitted token whose value is a reference to a token some file defines.
IsReferencing(t) ==
    /\ t.value.t = "str"
    /\ isReference(t.value.s)
    /\ Definers(referenceTarget(t.value.s)) # {}

\* The CSS file transformTokens generates for an input file.
CssFileOf(file) ==
    pathJoin(resolveOutputDir(OutputDirOption), getOutputFileName(file))

\* C18 as stated: after a run in which no file failed, every emitted token
\* whose value is a reference is written as var(--<normalized target name>),
\* and the target itself is emitted in the CSS file of a file defining it,
\* whichever bucket that file is in.
C18_TargetEmittedWherever ==
    (TransformReturned /\ \A k \in DOMAIN attempts : ~attempts[k].threw) =>
        \A out \in DOMAIN cssFiles : \A t \in cssFiles[out].tokens :
            IsReferencing(t) =>
                LET target == referenceTarget(t.value.s)
                IN  /\ t.css = "var(--" \o NormalName(target) \o ")"
                    /\ \E f \in Definers(target) :
                          /\ CssFileOf(f) \in DOMAIN cssFiles
                          /\ \E u \in cssFiles[CssFileOf(f)].tokens : u.path = target

\* C18: every emitted token whose value is a reference is written as
\* var(--<normalized target name>), never as the target's literal; every
\* CSS file comes from an output or theme file and holds, under their
\* normalized names, all tokens its own input file defines, so a target is
\* emitted by the build of each output or theme file defining it, and a
\* reference-bucket file has no build to emit it.
C18_ReferencesKept ==
    cssFiles # << >> =>
    LET texts  == scratchTexts
        own(f) == engineTokens(JSONparse(texts[f]), << >>)
    IN  \A out \in DOMAIN cssFiles :
          LET c == cssFiles[out]
          IN  /\ ~IsReferenceName(c.inputPath)
              /\ c.inputPath \in Range(discovered.outputFiles) \cup Range(discovered.themeFiles)
              /\ {u.path : u \in own(c.inputPath)} \subseteq {t.path : t \in c.tokens}
              /\ \A t \in c.tokens :
                    /\ t.name = NormalName(t.path)
                    /\ (t.value.t = "str" /\ isReference(t.value.s)) =>
                          LET target  == referenceTarget(t.value.s)
                              targets == {u \in UNION {own(f) : f \in Range(discovered.allFiles)}
                                            : u.path = target}
                          IN  targets # {} =>
                                /\ t.css = "var(--" \o NormalName(target) \o ")"
                                /\ \A u \in targets : t.css # u.value.s

\* A referencing token is emitted and its target is defined only in a
\* reference-bucket file.
C18_Witness ==
    /\ TransformReturned
    /\ \E out \in DOMAIN cssFiles : \E t \in cssFiles[out].tokens :
          /\ IsReferencing(t)
          /\ t.css = "var(--color-primary)"
          /\ \A f \in Definers(referenceTarget(t.value.s)) : IsReferenceName(f)


Succeeded(a) == ~a.threw

InputPaths(seq) == [k \in DOMAIN seq |-> seq[k].inputPath]

\* C19: transformTokens processes one file at a time in a fixed order, the
\* output bucket in list order and then the theme bucket in list order; a file
\* has returned or thrown before the next one starts; the name transform is
\* registered and the output directory exists before the first file; the
\* results are in processing order.
C19_OneAtATimeInOrder ==
    LET order == discovered.outputFiles \o discovered.themeFiles
        n     == Len(attempts)
    IN  /\ n <= Len(order)
        /\ InputPaths(attempts) = SubSeq(order, 1, n)
        /\ pc = "loop" => n = (i - 1) + (j - 1)
        /\ (pc = "loop" /\ j > 1) => i > Len(discovered.outputFiles)
        /\ n > 0 => (registered /\ outDirReady)
        /\ pc = "loop" => (registered /\ outDirReady)
        /\ Len(results) + stats.tokensSkipped = n
        /\ InputPaths(results) = InputPaths(SelectSeq(attempts, Succeeded))
        /\ TransformReturned => n = Len(order)

C19_Witness ==
    /\ TransformReturned
    /\ discovered.outputFiles # << >>
    /\ discovered.themeFiles # << >>
    /\ Len(results) >= 2
    /\ outDirCreated


RECURSIVE SumTokenCounts(_)
SumTokenCounts(seq) ==
    IF seq = << >> THEN 0 ELSE Head(seq).tokenCount + SumTokenCounts(Tail(seq))

\* C20: when transformTokens returns, results holds one BuildResult per
\* successfully processed file, stats.tokensProcessed is the sum of their
\* tokenCount, and stats.outputTokenCounts holds one entry per BuildResult,
\* mapping its outputPath to its tokenCount.
C20_StatsMatchResults ==
    TransformReturned =>
        /\ InputPaths(results) = InputPaths(SelectSeq(attempts, Succeeded))
        /\ stats.tokensProcessed = SumTokenCounts(results)
        /\ Cardinality(DOMAIN stats.outputTokenCounts) = Len(results)
        /\ \A k \in DOMAIN results :
              /\ results[k].outputPath \in DOMAIN stats.outputTokenCounts
              /\ stats.outputTokenCounts[results[k].outputPath] = results[k].tokenCount


\* A document in the new format throughout: below the root every node on
\* the way to a token is a group, an object without $value whose children are
\* all groups or tokens, and every token is an object carrying $value.  What
\* a token holds is the token's own business.
RECURSIVE GroupOrToken(_)
GroupOrToken(node) ==
    /\ node.t = "obj"
    /\ \/ HasKey(node, "$value")
       \/ \A k \in DOMAIN node.f : GroupOrToken(node.f[k])

AllTokensCarryValue(document) ==
    /\ document.t = "obj"
    /\ ~HasKey(document, "$value")
    /\ \A k \in DOMAIN document.f : GroupOrToken(document.f[k])

\* C21: validateDTCGFormat accepts every document in which every token is an
\* object carrying $value, whatever the groups and tokens are called and
\* whatever a token's $value holds.
C21_NewFormatAccepted ==
    (report.kind = "walks" /\ report.validated /\ AllTokensCarryValue(doc))
        => ~report.threw


\* C22: within one CSS file, tokens at distinct paths have distinct custom
\* property names, so the rule block holds as many distinct properties as
\* the file's tokenCount says.
C22_DistinctNames ==
    cssFiles # << >> =>
    LET texts == scratchTexts
    IN  \A out \in DOMAIN cssFiles :
          LET c == cssFiles[out]
          IN  /\ \A t, u \in c.tokens : t.path # u.path => t.name # u.name
              /\ Cardinality({t.name : t \in c.tokens})
                   = countTokens(JSONparse(texts[c.inputPath]))


\* C23: on the same classified files, the same documents and the same engine
\* outcomes, the compiled transformTokens returns the results list and the
\* tokensProcessed and tokensSkipped that the TypeScript one returned, and
\* invokes the engine for the same files.  Where the TypeScript run never
\* reached the engine, the comparison is made for either outcome.
C23_CompiledEquivalent ==
    TransformReturned =>
        \A free \in BOOLEAN :
            LET engineOks == [k \in DOMAIN attempts |->
                                IF attempts[k].engineInvoked THEN ~attempts[k].threw
                                ELSE free]
                d == transformTokensDist(discovered, OutputDirOption, scratchTexts,
                                         engineOks)
            IN  /\ d.results = results
                /\ d.stats.tokensProcessed = stats.tokensProcessed
                /\ d.stats.tokensSkipped = stats.tokensSkipped
                /\ d.engineFiles = InputPaths(SelectSeq(attempts, EngineInvoked))

====
